---- MODULE Spec2Model ----
(***************************************************************************)
(* Model of the lint pass FloatEqualityWithoutAbs                          *)
(* (clippy_lints/src/float_equality_without_abs.rs).                       *)
(*                                                                         *)
(* The pass has one handler, check_expr, which the host's traversal calls  *)
(* once per expression node.  The state is what the host keeps around the  *)
(* calls: the reporting sink the findings are handed to, and a record of   *)
(* the calls made.  Source text is modelled as a sequence of one-character *)
(* strings, so that starts_with('(') and format! are computed on the text  *)
(* itself.                                                                 *)
(***************************************************************************)
EXTENDS Integers, Sequences, FiniteSets, TLC

VARIABLES sink, calls, last, log

vars == <<sink, calls, last, log>>

\* Number of check_expr calls the host makes in one behaviour.
MaxCalls == 2

(***************************************************************************)
(* Source text                                                             *)
(***************************************************************************)

\* The characters of each name or literal that occurs in the source texts.
Spell ==
     "a" :> <<"a">> @@ "b" :> <<"b">> @@ "c" :> <<"c">>
  @@ "f32" :> <<"f", "3", "2">> @@ "f64" :> <<"f", "6", "4">>
  @@ "EPSILON" :> <<"E", "P", "S", "I", "L", "O", "N">>
  @@ "MAX" :> <<"M", "A", "X">>
  @@ "std" :> <<"s", "t", "d">>
  @@ "abs" :> <<"a", "b", "s">>
  @@ "0.1" :> <<"0", ".", "1">>

\* The operator tokens of BinOpKind, as written in source.
OpSym ==
     "Lt" :> <<"<">> @@ "Gt" :> <<">">> @@ "Le" :> <<"<", "=">>
  @@ "Sub" :> <<"-">> @@ "Add" :> <<"+">>

\* "(...)": the default handed to snippet().
Placeholder == <<"(", ".", ".", ".", ")">>

\* ".abs()" and ").abs()": the literal parts of the two format! strings.
DotAbs == <<".", "a", "b", "s", "(", ")">>

(***************************************************************************)
(* Expression nodes (rustc_hir::Expr): kind, and the fields of the kinds   *)
(* the pass looks at.  paren records that the node was written in          *)
(* parentheses: HIR has no parenthesis node, the node's span covers them.  *)
(***************************************************************************)

NoSpan == <<0, 0>>

NoExpr ==
  [kind |-> "None", op |-> "None", segments |-> <<>>, method |-> "",
   args |-> <<>>, paren |-> FALSE, span |-> NoSpan]

Path(segs) == [NoExpr EXCEPT !.kind = "Path", !.segments = segs]

Lit(text) == [NoExpr EXCEPT !.kind = "Lit", !.method = text]

Binary(o, l, r) == [NoExpr EXCEPT !.kind = "Binary", !.op = o, !.args = <<l, r>>]

MethodCall(recv, m) ==
  [NoExpr EXCEPT !.kind = "MethodCall", !.method = m, !.args = <<recv>>]

Cast(e, ty) == [NoExpr EXCEPT !.kind = "Cast", !.method = ty, !.args = <<e>>]

Paren(e) == [e EXCEPT !.paren = TRUE]

RECURSIVE JoinSegments(_)
JoinSegments(segs) ==
  IF Len(segs) = 1 THEN Spell[segs[1]]
  ELSE Spell[segs[1]] \o <<":", ":">> \o JoinSegments(Tail(segs))

\* The source text a node was parsed from.
RECURSIVE Render(_)
Render(e) ==
  LET inner ==
        CASE e.kind = "Path" -> JoinSegments(e.segments)
          [] e.kind = "Lit" -> Spell[e.method]
          [] e.kind = "Binary" ->
               Render(e.args[1]) \o <<" ">> \o OpSym[e.op] \o <<" ">> \o Render(e.args[2])
          [] e.kind = "MethodCall" ->
               Render(e.args[1]) \o <<".">> \o Spell[e.method] \o <<"(", ")">>
          [] e.kind = "Cast" ->
               Render(e.args[1]) \o <<" ", "a", "s", " ">> \o Spell[e.method]
  IN IF e.paren THEN <<"(">> \o inner \o <<")">> ELSE inner

\* The node with the spans it has when its text starts at offset lo.
RECURSIVE Place(_, _)
Place(e, lo) ==
  LET in == IF e.paren THEN lo + 1 ELSE lo
      placed ==
        CASE e.kind = "Binary" ->
               <<Place(e.args[1], in),
                 Place(e.args[2], in + Len(Render(e.args[1])) + Len(OpSym[e.op]) + 2)>>
          [] e.kind \in {"MethodCall", "Cast"} -> <<Place(e.args[1], in)>>
          [] OTHER -> <<>>
  IN [e EXCEPT !.span = <<lo, lo + Len(Render(e)) - 1>>, !.args = placed]

\* The statement of the fixture a node is written in: let _ = <expr>;.
LetPrefix == <<"l", "e", "t", " ", "_", " ", "=", " ">>

Statement(e) == LetPrefix \o Render(e) \o <<";">>

(***************************************************************************)
(* The nodes the host hands to the pass                                    *)
(***************************************************************************)

PA == Path(<<"a">>)
PB == Path(<<"b">>)
PC == Path(<<"c">>)

F32_EPSILON == Path(<<"f32", "EPSILON">>)
F64_EPSILON == Path(<<"f64", "EPSILON">>)

\* a - b, (a - b), a - b.abs(), (a as f64 - b as f64): the operands of
\* the comparisons of the fixture's lines 7 to 10.
AMinusB == Binary("Sub", PA, PB)
ParenAMinusB == Paren(AMinusB)
AMinusBAbs == Binary("Sub", PA, MethodCall(PB, "abs"))
CastDiff == Paren(Binary("Sub", Cast(PA, "f64"), Cast(PB, "f64")))

\* (a + b) - c: a subtraction whose left operand is parenthesized.
SumMinusC == Binary("Sub", Paren(Binary("Add", PA, PB)), PC)

\* (a - b).abs(), (a as f64 - b as f64).abs(): fixture lines 12 and 13.
AbsAMinusB == MethodCall(ParenAMinusB, "abs")
AbsCastDiff == MethodCall(CastDiff, "abs")

\* Operands that are subtractions.
SubOperands == {AMinusB, ParenAMinusB, AMinusBAbs, CastDiff, SumMinusC}

\* Operands that are not subtractions.
OtherOperands ==
  {AbsAMinusB, AbsCastDiff, Binary("Add", PA, PB), Paren(Binary("Add", PA, PB)), PA}

DiffOperands == SubOperands \cup OtherOperands

EpsilonConsts == {F32_EPSILON, F64_EPSILON}

PathSegments == {"f32", "f64", "EPSILON"}

\* Every path of one or two of the segments above, and some longer or other ones.
PathOperands ==
  {Path(<<s>>) : s \in PathSegments}
    \cup {Path(<<s, t>>) : s \in PathSegments, t \in PathSegments}
    \cup {Path(<<"std", "f32", "EPSILON">>), Path(<<"std", "f64", "EPSILON">>),
          Path(<<"f32", "MAX">>), Path(<<"f64", "MAX">>),
          Path(<<"f32", "EPSILON", "MAX">>)}

EpsOperands == PathOperands \cup {Lit("0.1"), MethodCall(F32_EPSILON, "abs")}

ComparisonOps == {"Lt", "Gt", "Le"}

\* The expressions, before they are placed in a source file.
Shapes ==
  {Binary(o, d, e) : o \in ComparisonOps, d \in DiffOperands, e \in EpsilonConsts}
    \cup {Binary(o, e, d) : o \in ComparisonOps, d \in DiffOperands, e \in EpsilonConsts}
    \cup {Binary("Lt", AMinusB, e) : e \in EpsOperands}
    \cup {Binary("Gt", e, AMinusB) : e \in EpsOperands}
    \cup DiffOperands \cup EpsOperands

\* The nodes of the statement let _ = <expr>; whose expression is e.
Node(e) == Place(e, Len(LetPrefix) + 1)

Exprs == {Node(e) : e \in Shapes}

\* The mirrored pairs D < E, E > D, and some comparisons that do not match.
TracedShapes ==
  {Binary("Lt", d, e) : d \in SubOperands, e \in EpsilonConsts}
    \cup {Binary("Gt", e, d) : d \in SubOperands, e \in EpsilonConsts}
    \cup {Binary("Lt", AbsAMinusB, F32_EPSILON), Binary("Le", AMinusB, F32_EPSILON),
          Binary("Gt", AMinusB, F64_EPSILON), Binary("Lt", AMinusB, Path(<<"EPSILON">>))}

TracedExprs == {Node(e) : e \in TracedShapes}

\* The lint context: the source map the snippet is read from, which may have
\* no text for a span.
Ctx(e, avail) == [available |-> avail, src |-> Statement(e)]

(***************************************************************************)
(* The helpers of crate::utils the pass calls                              *)
(***************************************************************************)

\* snippet(cx, span, default): the source text of the span, or the default.
snippet(ctx, span, default) ==
  IF ctx.available THEN SubSeq(ctx.src, span[1], span[2]) ELSE default

\* match_qpath(path, segments): the path is these segments.
match_qpath(path, segments) == path = segments

\* span_lint_and_sugg: one finding handed to the reporting sink.
span_lint_and_sugg(s, lint, sp, msg, help, sugg, applicability) ==
  Append(s, [lint |-> lint, span |-> sp, msg |-> msg, help |-> help,
             sugg |-> sugg, applicability |-> applicability])

(***************************************************************************)
(* FloatEqualityWithoutAbs::check_expr                                     *)
(***************************************************************************)

FLOAT_EQUALITY_WITHOUT_ABS == "clippy::float_equality_without_abs"

\* The message and the label of the lint.  The source writes .abs() between
\* grave accents, which a TLA+ string cannot hold: they are apostrophes here.
LintMsg == "float equality check without '.abs()'"
LintHelp == "add '.abs()'"

NoSides == [matched |-> FALSE, a_minus_b |-> NoExpr, epsilon |-> NoExpr]

\* Sides with <= taken for a comparison like <.
Sides_LeAsLt(expr) ==
  IF expr.kind = "Binary"
  THEN IF expr.op \in {"Lt", "Le"}
       THEN [matched |-> TRUE, a_minus_b |-> expr.args[1], epsilon |-> expr.args[2]]
       ELSE IF expr.op = "Gt"
            THEN [matched |-> TRUE, a_minus_b |-> expr.args[2], epsilon |-> expr.args[1]]
            ELSE NoSides
  ELSE NoSides

\* Sides with the operands of > not swapped.
Sides_NoSwap(expr) ==
  IF expr.kind = "Binary"
  THEN IF expr.op \in {"Lt", "Gt"}
       THEN [matched |-> TRUE, a_minus_b |-> expr.args[1], epsilon |-> expr.args[2]]
       ELSE NoSides
  ELSE NoSides

\* The two sides of the (a - b) < EPSILON comparison.
Sides(expr) ==
  IF expr.kind = "Binary"
  THEN IF expr.op = "Lt"
       THEN [matched |-> TRUE, a_minus_b |-> expr.args[1], epsilon |-> expr.args[2]]
       ELSE IF expr.op = "Gt"
            THEN [matched |-> TRUE, a_minus_b |-> expr.args[2], epsilon |-> expr.args[1]]
            ELSE NoSides
  ELSE NoSides

\* IsDifference looking through a method call to its receiver.
IsDifference_ThroughMethodCall(a_minus_b) ==
  LET side == IF a_minus_b.kind = "MethodCall" THEN a_minus_b.args[1] ELSE a_minus_b
  IN /\ side.kind = "Binary"
     /\ "Sub" = side.op

\* IsDifference refusing a subtraction one of whose operands is a method call.
IsDifference_PlainOperands(a_minus_b) ==
  /\ a_minus_b.kind = "Binary"
  /\ "Sub" = a_minus_b.op
  /\ a_minus_b.args[1].kind # "MethodCall"
  /\ a_minus_b.args[2].kind # "MethodCall"

\* check if the side is actually of the form (a - b)
IsDifference(a_minus_b) ==
  /\ a_minus_b.kind = "Binary"
  /\ "Sub" = a_minus_b.op

\* IsEpsilon looking at the last segment of the path alone.
IsEpsilon_LastSegment(epsilon) ==
  /\ epsilon.kind = "Path"
  /\ epsilon.segments[Len(epsilon.segments)] = "EPSILON"

\* check if the other side is f32::EPSILON or f64::EPSILON
IsEpsilon(epsilon) ==
  /\ epsilon.kind = "Path"
  /\ \/ match_qpath(epsilon.segments, <<"f32", "EPSILON">>)
     \/ match_qpath(epsilon.segments, <<"f64", "EPSILON">>)

\* Suggestion with the parentheses always added.
Suggestion_AlwaysWrap(a_minus_b_string) ==
  <<"(">> \o a_minus_b_string \o <<")">> \o DotAbs

\* Suggestion with the parentheses never added.
Suggestion_NeverWrap(a_minus_b_string) == a_minus_b_string \o DotAbs

\* let suggestion = match a_minus_b_string.starts_with('(') { ... }
Suggestion(a_minus_b_string) ==
  IF Len(a_minus_b_string) > 0 /\ Head(a_minus_b_string) = "("
  THEN a_minus_b_string \o DotAbs
  ELSE <<"(">> \o a_minus_b_string \o <<")">> \o DotAbs

\* check_expr reporting the span of the difference, as applicable by machine.
check_expr_DifferenceSpan(ctx, expr, s) ==
  LET sides == Sides(expr)
  IN IF ~sides.matched THEN s
     ELSE IF IsDifference(sides.a_minus_b) /\ IsEpsilon(sides.epsilon)
          THEN LET a_minus_b_string == snippet(ctx, sides.a_minus_b.span, Placeholder)
                   suggestion == Suggestion(a_minus_b_string)
               IN span_lint_and_sugg(s, FLOAT_EQUALITY_WITHOUT_ABS, sides.a_minus_b.span,
                                     LintMsg, LintHelp, suggestion, "MachineApplicable")
          ELSE s

\* check_expr remembering what it reported: a finding is reported once.
check_expr_ReportOnce(ctx, expr, s) ==
  LET sides == Sides(expr)
  IN IF ~sides.matched THEN s
     ELSE IF IsDifference(sides.a_minus_b) /\ IsEpsilon(sides.epsilon)
          THEN LET a_minus_b_string == snippet(ctx, sides.a_minus_b.span, Placeholder)
                   suggestion == Suggestion(a_minus_b_string)
                   reported == span_lint_and_sugg(<<>>, FLOAT_EQUALITY_WITHOUT_ABS, expr.span,
                                                  LintMsg, LintHelp, suggestion,
                                                  "MaybeIncorrect")
               IN IF \E i \in 1..Len(s) : s[i] = reported[1] THEN s ELSE s \o reported
          ELSE s

\* The sink after check_expr(ctx, expr), s being the sink before it.
check_expr(ctx, expr, s) ==
  LET sides == Sides(expr)
  IN IF ~sides.matched THEN s
     ELSE IF IsDifference(sides.a_minus_b) /\ IsEpsilon(sides.epsilon)
          THEN LET a_minus_b_string == snippet(ctx, sides.a_minus_b.span, Placeholder)
                   suggestion == Suggestion(a_minus_b_string)
               IN span_lint_and_sugg(s, FLOAT_EQUALITY_WITHOUT_ABS, expr.span,
                                     LintMsg, LintHelp, suggestion, "MaybeIncorrect")
          ELSE s

(***************************************************************************)
(* The host's traversal                                                    *)
(***************************************************************************)

NoCall == [expr |-> NoExpr, ctx |-> [available |-> FALSE, src |-> <<>>], emitted |-> <<>>]

Init ==
  /\ sink = <<>>
  /\ calls = 0
  /\ last = NoCall
  /\ log = <<>>

\* One call of check_expr; last is the call and what it handed to the sink.
Call(expr, ctx) ==
  /\ calls < MaxCalls
  /\ sink' = check_expr(ctx, expr, sink)
  /\ calls' = calls + 1
  /\ last' = [expr |-> expr, ctx |-> ctx,
              emitted |-> SubSeq(sink', Len(sink) + 1, Len(sink'))]

CheckExpr ==
  \E e \in Shapes, avail \in BOOLEAN :
    /\ Call(Node(e), Ctx(e, avail))
    /\ UNCHANGED log

\* The same call, with every call of the traversal kept in log.
CheckExprTraced ==
  \E e \in TracedShapes, avail \in BOOLEAN :
    /\ Call(Node(e), Ctx(e, avail))
    /\ log' = Append(log, last')

Next == CheckExpr

Spec == Init /\ [][Next]_vars

NextTraced == CheckExprTraced

SpecTraced == Init /\ [][NextTraced]_vars

(***************************************************************************)
(* Properties                                                              *)
(***************************************************************************)

\* A call has been made: last is a call of check_expr.
Called == calls > 0

IsComparison(e) == e.kind = "Binary" /\ e.op \in {"Lt", "Gt"}

\* The difference candidate: the left operand of <, the right operand of >.
DifferenceSide(e) == IF e.op = "Lt" THEN e.args[1] ELSE e.args[2]

\* The epsilon candidate: the right operand of <, the left operand of >.
EpsilonSide(e) == IF e.op = "Lt" THEN e.args[2] ELSE e.args[1]

RecognizedPaths == {<<"f32", "EPSILON">>, <<"f64", "EPSILON">>}

\* The shape the lint is about.
Pattern(e) ==
  /\ IsComparison(e)
  /\ DifferenceSide(e).kind = "Binary"
  /\ DifferenceSide(e).op = "Sub"
  /\ EpsilonSide(e).kind = "Path"
  /\ EpsilonSide(e).segments \in RecognizedPaths

\* The source text of the difference side of a call, (...) when there is none.
DifferenceText(c) ==
  IF c.ctx.available
  THEN SubSeq(c.ctx.src, DifferenceSide(c.expr).span[1], DifferenceSide(c.expr).span[2])
  ELSE <<"(", ".", ".", ".", ")">>

TextAMinusB == <<"a", " ", "-", " ", "b">>
TextParenAMinusB == <<"(", "a", " ", "-", " ", "b", ")">>
TextCastDiff ==
  <<"(", "a", " ", "a", "s", " ", "f", "6", "4", " ", "-", " ",
    "b", " ", "a", "s", " ", "f", "6", "4", ")">>
TextAbs == <<".", "a", "b", "s", "(", ")">>

\* C1: a call of check_expr emits a Finding if and only if the node is a Binary
\* with operator Lt or Gt, its difference candidate is a Binary Sub and its
\* epsilon candidate is the Path f32::EPSILON or f64::EPSILON; in every other
\* case nothing is emitted.
C1_FindingIffPattern ==
  Called =>
    /\ (last.emitted # <<>>) <=> Pattern(last.expr)
    /\ Len(last.emitted) = IF Pattern(last.expr) THEN 1 ELSE 0

C1_Witness ==
  /\ Called
  /\ Pattern(last.expr)
  /\ last.expr.op = "Gt"
  /\ Len(last.emitted) = 1

\* C2: when the epsilon side of a comparison is a Path whose segments are not
\* exactly f32::EPSILON or f64::EPSILON (another length, or another segment), no
\* Finding is produced.
C2_OnlyExactPaths ==
  ( /\ Called
    /\ IsComparison(last.expr)
    /\ EpsilonSide(last.expr).kind = "Path"
    /\ EpsilonSide(last.expr).segments \notin RecognizedPaths )
  => last.emitted = <<>>

C2_Witness ==
  /\ Called
  /\ last.expr = Node(Binary("Lt", AMinusB, Path(<<"std", "f32", "EPSILON">>)))
  /\ last.emitted = <<>>

\* Parentheses opened less parentheses closed in the first i characters of t.
RECURSIVE Depth(_, _)
Depth(t, i) ==
  IF i = 0 THEN 0
  ELSE Depth(t, i - 1) + (IF t[i] = "(" THEN 1 ELSE IF t[i] = ")" THEN -1 ELSE 0)

\* t is enclosed by one balanced pair of parentheses, which opens at its first
\* character and closes at its last.
EnclosedByOnePair(t) ==
  /\ Len(t) >= 2
  /\ t[1] = "("
  /\ t[Len(t)] = ")"
  /\ Depth(t, Len(t)) = 0
  /\ \A i \in 1..(Len(t) - 1) : Depth(t, i) > 0

\* C3: in every Finding the text that precedes the final .abs() of the
\* replacement is enclosed by one balanced pair of parentheses opening at its
\* first character and closing at its last, so .abs() applies to the whole
\* difference.
C3_AbsAppliesToWholeDifference ==
  \A i \in 1..Len(last.emitted) :
    LET sugg == last.emitted[i].sugg
    IN /\ Len(sugg) > Len(TextAbs)
       /\ SubSeq(sugg, Len(sugg) - Len(TextAbs) + 1, Len(sugg)) = TextAbs
       /\ EnclosedByOnePair(SubSeq(sugg, 1, Len(sugg) - Len(TextAbs)))

\* C4: the replacement is computed from the difference text t by one rule: t
\* followed by .abs() when t begins with (, otherwise ( t ).abs(); so a - b and
\* (a - b) both give (a - b).abs(), and (a as f64 - b as f64) gives
\* (a as f64 - b as f64).abs().
C4_SynthesisRule ==
  (Called /\ last.emitted # <<>>) =>
    LET t == DifferenceText(last)
        sugg == last.emitted[1].sugg
    IN /\ sugg = IF t[1] = "(" THEN t \o TextAbs ELSE <<"(">> \o t \o <<")">> \o TextAbs
       /\ t = TextAMinusB => sugg = TextParenAMinusB \o TextAbs
       /\ t = TextParenAMinusB => sugg = TextParenAMinusB \o TextAbs
       /\ t = TextCastDiff => sugg = TextCastDiff \o TextAbs

C4_Witness ==
  /\ Called
  /\ Len(last.emitted) = 1
  /\ DifferenceText(last) = TextAMinusB
  /\ last.emitted[1].sugg = TextParenAMinusB \o TextAbs

\* The nodes of D < E and of E > D, for every subtraction D and recognized E.
MirroredPairs ==
  {<<Node(Binary("Lt", d, e)), Node(Binary("Gt", e, d))>> :
     d \in SubOperands, e \in EpsilonConsts}

\* C5: for every subtraction D and recognized constant E, the calls on D < E and
\* on E > D each emit exactly one Finding; each flags the span of its own whole
\* comparison, and the two carry the same replacement text, message, label and
\* applicability (the source text of D being available to both or to neither).
C5_OperatorSymmetry ==
  \A i, j \in 1..Len(log) :
    \A m \in MirroredPairs :
      ( /\ log[i].expr = m[1]
        /\ log[j].expr = m[2]
        /\ log[i].ctx.available = log[j].ctx.available )
      => /\ Len(log[i].emitted) = 1
         /\ Len(log[j].emitted) = 1
         /\ log[i].emitted[1].span = log[i].expr.span
         /\ log[j].emitted[1].span = log[j].expr.span
         /\ log[i].emitted[1].sugg = log[j].emitted[1].sugg
         /\ log[i].emitted[1].msg = log[j].emitted[1].msg
         /\ log[i].emitted[1].help = log[j].emitted[1].help
         /\ log[i].emitted[1].applicability = log[j].emitted[1].applicability

C5_Witness ==
  /\ Len(log) = 2
  /\ log[1].expr = Node(Binary("Lt", SumMinusC, F64_EPSILON))
  /\ log[2].expr = Node(Binary("Gt", F64_EPSILON, SumMinusC))
  /\ log[1].ctx.available
  /\ log[2].ctx.available
  /\ Len(log[1].emitted) = 1
  /\ Len(log[2].emitted) = 1
  /\ log[1].emitted[1].span = log[1].expr.span
  /\ log[2].emitted[1].span = log[2].expr.span
  /\ log[1].emitted[1].sugg = log[2].emitted[1].sugg

\* C6: every Finding carries the span of the whole comparison (not that of the
\* difference), the fixed message, the fixed label and applicability
\* MaybeIncorrect; no Finding in the sink has another applicability.
C6_FindingContent ==
  /\ \A i \in 1..Len(last.emitted) :
       /\ last.emitted[i].span = last.expr.span
       /\ last.emitted[i].span # DifferenceSide(last.expr).span
  /\ \A i \in 1..Len(sink) :
       /\ sink[i].msg = "float equality check without '.abs()'"
       /\ sink[i].help = "add '.abs()'"
       /\ sink[i].applicability = "MaybeIncorrect"
       /\ sink[i].applicability \notin {"MachineApplicable", "HasPlaceholders", "Unspecified"}

C6_Witness ==
  /\ Len(sink) = 2
  /\ Len(last.emitted) = 1
  /\ last.expr.op = "Gt"
  /\ last.emitted[1].span = last.expr.span

\* C7: a comparison whose difference side is an abs method call on a
\* subtraction, as in (a - b).abs() < f32::EPSILON, produces no Finding.
C7_AlreadyFixed ==
  ( /\ Called
    /\ IsComparison(last.expr)
    /\ DifferenceSide(last.expr).kind = "MethodCall"
    /\ DifferenceSide(last.expr).method = "abs"
    /\ DifferenceSide(last.expr).args[1].kind = "Binary"
    /\ DifferenceSide(last.expr).args[1].op = "Sub" )
  => last.emitted = <<>>

C7_Witness ==
  /\ Called
  /\ last.expr = Node(Binary("Lt", AbsCastDiff, F64_EPSILON))
  /\ EpsilonSide(last.expr).segments \in RecognizedPaths
  /\ last.emitted = <<>>

\* The node of a - b.abs() < f32::EPSILON: Lt(Sub(a, MethodCall(b, abs)), f32::EPSILON).
AMinusBAbsLtEpsilon == Node(Binary("Lt", AMinusBAbs, F32_EPSILON))

TextAMinusBAbs == <<"a", " ", "-", " ", "b", ".", "a", "b", "s", "(", ")">>

\* C8, as claimed: the call on a - b.abs() < f32::EPSILON produces no Finding.
C8_NoFinding ==
  (Called /\ last.expr = AMinusBAbsLtEpsilon) => last.emitted = <<>>

\* C8, amended: the call on a - b.abs() < f32::EPSILON produces exactly one
\* Finding, which flags the whole comparison and, when the source text is
\* available, carries the replacement (a - b.abs()).abs().
C8_OneFinding ==
  (Called /\ last.expr = AMinusBAbsLtEpsilon) =>
    /\ Len(last.emitted) = 1
    /\ last.emitted[1].span = last.expr.span
    /\ last.ctx.available =>
         last.emitted[1].sugg = <<"(">> \o TextAMinusBAbs \o <<")">> \o TextAbs

C8_Witness ==
  /\ Called
  /\ last.expr = AMinusBAbsLtEpsilon
  /\ last.ctx.available
  /\ DifferenceText(last) = TextAMinusBAbs
  /\ Len(last.emitted) = 1

RECURSIVE Emitted(_)
\* Everything the calls of a log emitted, in order.
Emitted(l) == IF l = <<>> THEN <<>> ELSE l[1].emitted \o Emitted(Tail(l))

\* C9: over any sequence of calls each call emits at most one Finding, two calls
\* on the same node with the same source text give the same outcome whatever
\* was called before them, and the sink holds what the calls emitted, in order.
C9_NoStateBetweenCalls ==
  /\ \A i \in 1..Len(log) : Len(log[i].emitted) <= 1
  /\ \A i, j \in 1..Len(log) :
       (log[i].expr = log[j].expr /\ log[i].ctx = log[j].ctx)
         => log[i].emitted = log[j].emitted
  /\ sink = Emitted(log)

C9_Witness ==
  /\ Len(log) = 2
  /\ log[1].expr = log[2].expr
  /\ log[1].ctx = log[2].ctx
  /\ Len(log[1].emitted) = 1
  /\ Len(sink) = 2

\* C10: when the source text of the difference is unavailable, a matching node
\* still produces exactly one Finding, whose replacement is (...).abs() with no
\* further parentheses, tagged MaybeIncorrect.
C10_PlaceholderText ==
  (Called /\ Pattern(last.expr) /\ ~last.ctx.available) =>
    /\ Len(last.emitted) = 1
    /\ last.emitted[1].sugg = <<"(", ".", ".", ".", ")", ".", "a", "b", "s", "(", ")">>
    /\ last.emitted[1].applicability = "MaybeIncorrect"

C10_Witness ==
  /\ Called
  /\ ~last.ctx.available
  /\ last.expr = Node(Binary("Lt", AMinusB, F32_EPSILON))
  /\ Len(last.emitted) = 1
  /\ last.emitted[1].sugg = <<"(", ".", ".", ".", ")">> \o TextAbs

====
